---- MODULE Spec2Model ----
(***************************************************************************)
(* Model of simple_web_interface.py: the Flask routes /start_interview,    *)
(* /chat, /score_interview, /get_unique_id, /export_mapping and /health,   *)
(* the in-memory store user_sessions and the durable file                  *)
(* conversations.json.                                                     *)
(*                                                                         *)
(* Text is modelled as a sequence of chunks (strings; single characters    *)
(* where the code slices a text): concatenation is                         *)
(* \o, str.startswith looks at the first chunk, str.replace removes the    *)
(* chunks equal to the pattern and str.strip removes blank chunks at both  *)
(* ends.  A Python dict is modelled as the sequence of its items in        *)
(* insertion order (an association list with distinct keys).               *)
(***************************************************************************)
EXTENDS Integers, Sequences, FiniteSets, TLC

VARIABLES
    user_sessions,    \* the in-memory store (dict: user_id -> list of turns)
    file,             \* conversations.json: [state, doc]
    OPENAI_API_KEY,   \* TRUE iff the credential is configured in this process
    epoch,            \* number of process restarts so far
    last,             \* the last request handled and its HTTP response
    generated,        \* the last call of generate_unique_id made on its own
    client,           \* the browser page: its script variables, timers and requests
    threads           \* request handlers running concurrently in the process

vars == <<user_sessions, file, OPENAI_API_KEY, epoch, last, generated, client, threads>>

----------------------------------------------------------------------------
(* Bounds of the model *)

\* cap on the total number of turns held by the in-memory store
MaxTotalTurns == 6
\* cap on the number of process restarts
MaxRestarts == 1

----------------------------------------------------------------------------
(* Inputs *)

\* Python None: the value of request.json.get("user_id") when the field is missing
NoneKey == "<None>"

\* user_id values sent by clients
UserIds == {"u1", NoneKey}

\* message texts sent by clients
Messages == {<<"hi">>}

\* datetime.now().strftime("%Y%m%d%H%M%S"): 14 characters
Timestamps ==
    {<<"2","0","2","5","0","1","0","1","1","2","0","0","0","0">>,
     <<"2","0","2","5","0","1","0","2","1","2","0","0","0","0">>,
     <<"2","0","2","5","0","1","0","2","1","2","0","0","0","1">>}

\* str(uuid.uuid4())[:8]: the first 8 characters of the random token
RandomParts == {<<"a","b","c","d","e","f","0","1">>}

----------------------------------------------------------------------------
(* Text helpers *)

Blank == " "

StartsWith(content, prefix) == Len(content) >= 1 /\ content[1] = prefix

Replace(content, pattern) == SelectSeq(content, LAMBDA c : c # pattern)

RECURSIVE LStrip(_)
LStrip(content) ==
    IF content # <<>> /\ Head(content) = Blank THEN LStrip(Tail(content)) ELSE content

RECURSIVE RStrip(_)
RStrip(content) ==
    IF content # <<>> /\ content[Len(content)] = Blank
    THEN RStrip(SubSeq(content, 1, Len(content) - 1))
    ELSE content

Strip(content) == RStrip(LStrip(content))

----------------------------------------------------------------------------
(* Turns and identifiers *)

SYSTEM_PROMPT == <<"SYSTEM_PROMPT">>

Turn(role, content) == [role |-> role, content |-> content]

\* Mutant: the readable form takes the first 6 characters of the timestamp
generate_unique_id_first6(timestamp, random_part) ==
    [unique_id   |-> timestamp \o <<"-">> \o random_part,
     readable_id |-> SubSeq(timestamp, 1, 6) \o <<"-">> \o SubSeq(random_part, 1, 6)]

\* timestamp[-6:] and random_part[:6] are slices of the character sequences
generate_unique_id(timestamp, random_part) ==
    [unique_id   |-> timestamp \o <<"-">> \o random_part,
     readable_id |-> SubSeq(timestamp, Len(timestamp) - 5, Len(timestamp))
                     \o <<"-">> \o SubSeq(random_part, 1, 6)]

UniqueIdTurn(unique_id) == Turn("system", <<"UNIQUE_ID:", Blank>> \o unique_id)

ReadableIdTurn(readable_id) == Turn("system", <<"READABLE_ID:", Blank>> \o readable_id)

----------------------------------------------------------------------------
(* Python dict as an association list *)

\* origin is a history annotation, not program state: the route whose request
\* created the session ("start", "chat"), or "legacy" for a session that was in
\* the durable file before the first process started
Item(k, turns, origin) == [key |-> k, turns |-> turns, origin |-> origin]

Keys(d) == {d[i].key : i \in DOMAIN d}

Has(d, k) == k \in Keys(d)

Entry(d, k) == d[CHOOSE i \in DOMAIN d : d[i].key = k]

Get(d, k) == Entry(d, k).turns

\* d[k] = turns: an existing key keeps its place, a new key goes last
Put(d, k, turns, origin) ==
    IF Has(d, k)
    THEN [i \in DOMAIN d |-> IF d[i].key = k THEN Item(k, turns, origin) ELSE d[i]]
    ELSE Append(d, Item(k, turns, origin))

\* d[k].append(turn)
AppendTurn(d, k, turn) == Put(d, k, Append(Get(d, k), turn), Entry(d, k).origin)

RECURSIVE SumLen(_)
SumLen(d) == IF d = <<>> THEN 0 ELSE Len(Head(d).turns) + SumLen(Tail(d))

----------------------------------------------------------------------------
(* Persistence: conversations.json *)

\* json.dump writes every dict key as a JSON string: None becomes "null"
JsonKey(k) == IF k = NoneKey THEN "null" ELSE k

\* json.dump(conversations, f): the members of the document in dict order
\* (two keys that serialise alike give two members with the same name)
json_dump(d) == [i \in DOMAIN d |-> Item(JsonKey(d[i].key), d[i].turns, d[i].origin)]

\* json.load(f): members are stored in order, a repeated name overwrites the
\* value stored for it
RECURSIVE LoadInto(_, _)
LoadInto(d, doc) ==
    IF doc = <<>> THEN d
    ELSE LoadInto(Put(d, Head(doc).key, Head(doc).turns, Head(doc).origin), Tail(doc))

json_load(doc) == LoadInto(<<>>, doc)

AbsentFile == [state |-> "absent", doc |-> <<>>]

CorruptFile == [state |-> "corrupt", doc |-> <<>>]

load_conversations(f) == IF f.state = "ok" THEN json_load(f.doc) ELSE <<>>

\* outcome "ok": the document is rewritten; "open_failed": open() raises and the
\* file is untouched; "write_failed": the file was truncated by open() and the
\* dump raised part-way, leaving text that does not parse.  The exception is
\* swallowed in every case.
WriteOutcomes == {"ok", "open_failed", "write_failed"}

\* Mutant: a failed write propagates to the caller
SaveRaises_propagates(outcome) == outcome # "ok"

\* save_conversations, lines 140-141: "except Exception" catches every failure
\* of the write, so no outcome raises to the route handler
SaveRaises(outcome) == FALSE

\* Mutant: the parse of an unreadable file is not caught
LoadRaises_unreadable(f) == f.state = "corrupt"

\* load_conversations, lines 131-133: "except Exception" catches every failure
\* of the read, so no file state raises to the module body
LoadRaises(f) == FALSE

save_conversations(f, conversations, outcome) ==
    CASE outcome = "ok"           -> [state |-> "ok", doc |-> json_dump(conversations)]
      [] outcome = "open_failed"  -> f
      [] outcome = "write_failed" -> CorruptFile

----------------------------------------------------------------------------
(* JSON values: response bodies and parsed completion texts *)

\* A JSON value.  fields: the member names of an object; question_asked is {}
\* for null/absent and {n} for the number n.
Json(jtype, fields) ==
    [jtype |-> jtype, fields |-> fields, response |-> <<>>, question_asked |-> {},
     is_clarification |-> FALSE, error |-> "", unique_id |-> <<>>,
     scoring_result |-> <<>>, openai_key_present |-> FALSE, mapping |-> <<>>]

NoJson == Json("none", {})

ReplyFields == {"response", "question_asked", "is_clarification"}

Reply(response, question_asked, is_clarification) ==
    [Json("object", ReplyFields) EXCEPT !.response = response,
                                        !.question_asked = question_asked,
                                        !.is_clarification = is_clarification]

ErrorBody(message) == [Json("object", {"error"}) EXCEPT !.error = message]

\* Texts the completion API returns for a chat call
TextReply == <<"{\"response\":\"Hi\",\"question_asked\":1,\"is_clarification\":false}">>

TextNumber == <<"42">>

TextHello == <<"hello">>

ChatTexts == {TextReply, TextNumber, TextHello}

\* Texts the completion API returns for a scoring call
ScoreTexts == {<<"{\"overall_score\":3}">>}

\* json.dumps(welcome_data)
WELCOME_TEXT == <<"{\"response\": \"Welcome\", \"question_asked\": 0, \"is_clarification\": false}">>

welcome_data == Reply(<<"Welcome">>, {0}, FALSE)

\* Error strings returned by chat_with_gpt / score_interview
ErrorNoKey == <<"Error: ", "OpenAI API key not configured">>

ErrorApi == <<"Error: ", "exception text">>

\* json.loads(text): [ok, value]; ok = FALSE stands for json.JSONDecodeError
json_loads(text) ==
    CASE text = TextReply    -> [ok |-> TRUE, value |-> Reply(<<"Hi">>, {1}, FALSE)]
      [] text = TextNumber   -> [ok |-> TRUE, value |-> Json("number", {})]
      [] text = WELCOME_TEXT -> [ok |-> TRUE, value |-> welcome_data]
      [] OTHER               -> [ok |-> FALSE, value |-> NoJson]

\* Outcomes of one call of the completion API: a returned text or an exception
ApiRaises == <<"<exception>">>

\* No outcome: the API was not called
NoCall == <<>>

\* Mutant: a failed call is tried a second time
chat_with_gpt_retry(key_present, conversation_history, api) ==
    IF ~key_present THEN [text |-> <<"Error: ", "OpenAI API key not configured">>,
                          calls |-> <<>>, returned |-> <<>>]
    ELSE [text  |-> IF api = <<"<exception>">> THEN <<"Error: ", "exception text">> ELSE api,
          calls |-> IF api = <<"<exception>">>
                    THEN <<conversation_history, conversation_history>>
                    ELSE <<conversation_history>>,
          returned |-> api]

\* chat_with_gpt(conversation_history): text is the value returned, calls the
\* requests made to the API and returned the outcome of the call (history)
chat_with_gpt(key_present, conversation_history, api) ==
    IF ~key_present THEN [text |-> ErrorNoKey, calls |-> <<>>, returned |-> NoCall]
    ELSE [text  |-> IF api = ApiRaises THEN ErrorApi ELSE api,
          calls |-> <<conversation_history>>,
          returned |-> api]

SCORING_PROMPT == <<"SCORING_PROMPT">>

\* score_interview(conversation_history)
score_interview(key_present, conversation_text, api) ==
    IF ~key_present THEN [text |-> ErrorNoKey, calls |-> <<>>, returned |-> NoCall]
    ELSE [text  |-> IF api = ApiRaises THEN ErrorApi ELSE api,
          returned |-> api,
          calls |-> << <<Turn("system", SCORING_PROMPT),
                         Turn("user", <<"Please evaluate the following interview transcript for grandiose narcissism:\n\n">>
                                      \o conversation_text)>> >>]

----------------------------------------------------------------------------
(* Route handlers: each returns the new store and the HTTP response *)

Response(status, body) == [status |-> status, body |-> body]

Result(sessions, response, api) ==
    [sessions |-> sessions, response |-> response, calls |-> api.calls,
     returned |-> api.returned]

\* The handler does not use the completion API
NoApi == [calls |-> <<>>, returned |-> NoCall]

\* Mutant: the identifiers are generated again on every /start_interview
ResolveStart_regenerate(d, user_id, timestamp, random_part) ==
    LET ids == generate_unique_id(timestamp, random_part)
        seed == <<Turn("system", SYSTEM_PROMPT),
                  UniqueIdTurn(ids.unique_id),
                  ReadableIdTurn(ids.readable_id)>>
    IN  IF ~Has(d, user_id)
        THEN Put(d, user_id, seed, "start")
        ELSE Put(d, user_id, seed \o SelectSeq(Get(d, user_id), LAMBDA m : m.role # "system"),
                 Entry(d, user_id).origin)

\* Mutant: an existing session that holds no READABLE_ID turn is given identifiers
ResolveStart_backfill(d, user_id, timestamp, random_part) ==
    LET ids == generate_unique_id(timestamp, random_part)
    IN  IF ~Has(d, user_id)
        THEN Put(d, user_id,
                 <<Turn("system", SYSTEM_PROMPT),
                   UniqueIdTurn(ids.unique_id),
                   ReadableIdTurn(ids.readable_id)>>,
                 "start")
        ELSE IF \E i \in DOMAIN Get(d, user_id) :
                    StartsWith(Get(d, user_id)[i].content, "READABLE_ID:")
             THEN d
             ELSE AppendTurn(AppendTurn(d, user_id, UniqueIdTurn(ids.unique_id)),
                             user_id, ReadableIdTurn(ids.readable_id))

\* start_interview, lines 934-939: create the session when the key is absent
ResolveStart(d, user_id, timestamp, random_part) ==
    IF ~Has(d, user_id)
    THEN LET ids == generate_unique_id(timestamp, random_part)
         IN  Put(d, user_id,
                 <<Turn("system", SYSTEM_PROMPT),
                   UniqueIdTurn(ids.unique_id),
                   ReadableIdTurn(ids.readable_id)>>,
                 "start")
    ELSE d

\* Mutant: the membership test is missing, the session is created anew each time
ResolveChat_always(d, user_id) ==
    IF ~Has(d, user_id)
    THEN Put(d, user_id, <<Turn("system", SYSTEM_PROMPT)>>, "chat")
    ELSE Put(d, user_id, <<Turn("system", SYSTEM_PROMPT)>>, Entry(d, user_id).origin)

\* Mutant: a session created by /chat starts empty, without the instructions turn
ResolveChat_noPrompt(d, user_id) ==
    IF ~Has(d, user_id) THEN Put(d, user_id, <<>>, "chat") ELSE d

\* Mutant: resolving an existing session seeds the instructions turn again
ResolveChat_reseed(d, user_id) ==
    IF ~Has(d, user_id)
    THEN Put(d, user_id, <<Turn("system", SYSTEM_PROMPT)>>, "chat")
    ELSE AppendTurn(d, user_id, Turn("system", SYSTEM_PROMPT))

\* chat, lines 963-964: create the session when the key is absent
ResolveChat(d, user_id) ==
    IF ~Has(d, user_id)
    THEN Put(d, user_id, <<Turn("system", SYSTEM_PROMPT)>>, "chat")
    ELSE d

\* Mutant: the welcome turn is appended only when the session is created
start_interview_welcomeOnce(d, user_id, timestamp, random_part) ==
    LET d1 == ResolveStart(d, user_id, timestamp, random_part)
        d2 == IF Has(d, user_id) THEN d1
              ELSE AppendTurn(d1, user_id, Turn("assistant", WELCOME_TEXT))
    IN  Result(d2, Response(200, welcome_data), NoApi)

start_interview(d, user_id, timestamp, random_part) ==
    LET d1 == ResolveStart(d, user_id, timestamp, random_part)
        d2 == AppendTurn(d1, user_id, Turn("assistant", WELCOME_TEXT))
    IN  Result(d2, Response(200, welcome_data), NoApi)

\* Mutant: the fallback reply is returned whatever the text is
ChatBody_alwaysFallback(response_message) == Reply(response_message, {}, FALSE)

\* Mutant: a text that does not parse is answered with an error body
ChatBody_errorOnFailure(response_message) ==
    LET parsed == json_loads(response_message)
    IN  IF parsed.ok THEN parsed.value ELSE ErrorBody("Invalid response")

\* chat, lines 980-991: the parsed value as it is, or the fallback reply
ChatBody(response_message) ==
    LET parsed == json_loads(response_message)
    IN  IF parsed.ok THEN parsed.value ELSE Reply(response_message, {}, FALSE)

\* Mutant: a session that already holds an exchange is refused further turns
chat_limited(d, key_present, user_id, user_message, api) ==
    LET d1 == ResolveChat(d, user_id)
        d2 == AppendTurn(d1, user_id, Turn("user", user_message))
        r  == chat_with_gpt(key_present, Get(d2, user_id), api)
        d3 == AppendTurn(d2, user_id, Turn("assistant", r.text))
    IN  IF Has(d, user_id) /\ Len(Get(d, user_id)) >= 3
        THEN Result(d, Response(400, ErrorBody("Interview limit reached")), NoApi)
        ELSE Result(d3, Response(200, ChatBody(r.text)), r)

\* Mutant: the text of a failed call is answered but not kept in the transcript
chat_dropError(d, key_present, user_id, user_message, api) ==
    LET d1 == ResolveChat(d, user_id)
        d2 == AppendTurn(d1, user_id, Turn("user", user_message))
        r  == chat_with_gpt(key_present, Get(d2, user_id), api)
        d3 == IF StartsWith(r.text, "Error: ") THEN d2
              ELSE AppendTurn(d2, user_id, Turn("assistant", r.text))
    IN  Result(d3, Response(200, ChatBody(r.text)), r)

chat(d, key_present, user_id, user_message, api) ==
    LET d1 == ResolveChat(d, user_id)
        d2 == AppendTurn(d1, user_id, Turn("user", user_message))
        r  == chat_with_gpt(key_present, Get(d2, user_id), api)
        d3 == AppendTurn(d2, user_id, Turn("assistant", r.text))
    IN  Result(d3, Response(200, ChatBody(r.text)), r)

\* Mutant: system turns are rendered too
RECURSIVE RenderTranscript_withSystem(_)
RenderTranscript_withSystem(conversation) ==
    IF conversation = <<>> THEN <<>>
    ELSE LET message == Head(conversation)
             role == IF message.role = "assistant" THEN "Interviewer" ELSE "Candidate"
         IN  <<role, ": ">> \o message.content \o <<"\n\n">>
             \o RenderTranscript_withSystem(Tail(conversation))

\* score_interview_endpoint, lines 1005-1009
RECURSIVE RenderTranscript(_)
RenderTranscript(conversation) ==
    IF conversation = <<>> THEN <<>>
    ELSE LET message == Head(conversation)
             role == IF message.role = "assistant" THEN "Interviewer" ELSE "Candidate"
         IN  (IF message.role # "system"
              THEN <<role, ": ">> \o message.content \o <<"\n\n">>
              ELSE <<>>)
             \o RenderTranscript(Tail(conversation))

\* Mutant: an unknown key is resolved as /chat does and scored
score_interview_endpoint_create(d, key_present, user_id, api) ==
    LET d1 == ResolveChat(d, user_id)
        r  == score_interview(key_present, RenderTranscript(Get(d1, user_id)), api)
    IN  Result(d1,
               Response(200, [Json("object", {"scoring_result"})
                                  EXCEPT !.scoring_result = r.text]),
               r)

score_interview_endpoint(d, key_present, user_id, api) ==
    IF ~Has(d, user_id)
    THEN Result(d, Response(400, ErrorBody("No interview found for this user")), NoApi)
    ELSE LET r == score_interview(key_present, RenderTranscript(Get(d, user_id)), api)
         IN  Result(d,
                    Response(200, [Json("object", {"scoring_result"})
                                       EXCEPT !.scoring_result = r.text]),
                    r)

\* get_unique_id, lines 1029-1033: the first READABLE_ID system turn, or <<>>
RECURSIVE FindReadableId(_)
FindReadableId(conversation) ==
    IF conversation = <<>> THEN <<>>
    ELSE LET message == Head(conversation)
         IN  IF message.role = "system" /\ StartsWith(message.content, "READABLE_ID:")
             THEN Strip(Replace(message.content, "READABLE_ID:"))
             ELSE FindReadableId(Tail(conversation))

\* Mutant: the two error statuses are exchanged
get_unique_id_swapped(d, user_id) ==
    IF ~Has(d, user_id)
    THEN Result(d, Response(404, ErrorBody("No interview found for this user")), NoApi)
    ELSE LET unique_id == FindReadableId(Get(d, user_id))
         IN  IF unique_id # <<>>
             THEN Result(d, Response(200, [Json("object", {"unique_id"})
                                               EXCEPT !.unique_id = unique_id]), NoApi)
             ELSE Result(d, Response(400, ErrorBody("Unique ID not found")), NoApi)

\* Mutant: a session without a READABLE_ID turn is given one when it is asked for
get_unique_id_assign(d, user_id) ==
    IF ~Has(d, user_id)
    THEN Result(d, Response(400, ErrorBody("No interview found for this user")), NoApi)
    ELSE LET unique_id == FindReadableId(Get(d, user_id))
         IN  IF unique_id # <<>>
             THEN Result(d, Response(200, [Json("object", {"unique_id"})
                                               EXCEPT !.unique_id = unique_id]), NoApi)
             ELSE Result(AppendTurn(d, user_id, ReadableIdTurn(<<"0">>)),
                         Response(404, ErrorBody("Unique ID not found")), NoApi)

get_unique_id(d, user_id) ==
    IF ~Has(d, user_id)
    THEN Result(d, Response(400, ErrorBody("No interview found for this user")), NoApi)
    ELSE LET unique_id == FindReadableId(Get(d, user_id))
         IN  IF unique_id # <<>>
             THEN Result(d, Response(200, [Json("object", {"unique_id"})
                                               EXCEPT !.unique_id = unique_id]), NoApi)
             ELSE Result(d, Response(404, ErrorBody("Unique ID not found")), NoApi)

\* export_mapping, lines 1050-1054: the LAST matching turn of each kind, or <<>>
RECURSIVE LastIdentifier(_, _)
LastIdentifier(conversation, prefix) ==
    IF conversation = <<>> THEN <<>>
    ELSE LET message == conversation[Len(conversation)]
         IN  IF message.role = "system" /\ StartsWith(message.content, prefix)
             THEN Strip(Replace(message.content, prefix))
             ELSE LastIdentifier(SubSeq(conversation, 1, Len(conversation) - 1), prefix)

MessageCount(conversation) ==
    Len(SelectSeq(conversation, LAMBDA m : m.role # "system"))

\* mapping[readable_id] = {...}: a dict keyed by readable id
MapPut(mapping, readable_id, entry) ==
    IF \E i \in DOMAIN mapping : mapping[i].readable_id = readable_id
    THEN [i \in DOMAIN mapping |->
              IF mapping[i].readable_id = readable_id THEN entry ELSE mapping[i]]
    ELSE Append(mapping, entry)

\* Mutant: a session is listed when it holds either identifier
RECURSIVE BuildMapping_either(_, _)
BuildMapping_either(mapping, d) ==
    IF d = <<>> THEN mapping
    ELSE LET conversation == Head(d).turns
             unique_id   == LastIdentifier(conversation, "UNIQUE_ID:")
             readable_id == LastIdentifier(conversation, "READABLE_ID:")
             entry == [readable_id   |-> readable_id,
                       unique_id     |-> unique_id,
                       user_id       |-> Head(d).key,
                       message_count |-> MessageCount(conversation)]
         IN  BuildMapping_either(IF unique_id # <<>> \/ readable_id # <<>>
                                 THEN MapPut(mapping, readable_id, entry)
                                 ELSE mapping,
                                 Tail(d))

RECURSIVE BuildMapping(_, _)
BuildMapping(mapping, d) ==
    IF d = <<>> THEN mapping
    ELSE LET conversation == Head(d).turns
             unique_id   == LastIdentifier(conversation, "UNIQUE_ID:")
             readable_id == LastIdentifier(conversation, "READABLE_ID:")
             entry == [readable_id   |-> readable_id,
                       unique_id     |-> unique_id,
                       user_id       |-> Head(d).key,
                       message_count |-> MessageCount(conversation)]
         IN  BuildMapping(IF unique_id # <<>> /\ readable_id # <<>>
                          THEN MapPut(mapping, readable_id, entry)
                          ELSE mapping,
                          Tail(d))

export_mapping(d) ==
    Result(d, Response(200, [Json("object", {}) EXCEPT !.mapping = BuildMapping(<<>>, d)]), NoApi)

health(d, key_present) ==
    Result(d,
           Response(200, [Json("object", {"status", "openai_key_present"})
                              EXCEPT !.openai_key_present = key_present]),
           NoApi)

----------------------------------------------------------------------------
(* The server as a state machine: requests are handled one at a time *)

\* The durable file when the first process starts: not there, or unreadable
InitialFiles == {AbsentFile, CorruptFile}

NoRequest ==
    [route |-> "none", user_id |-> "", message |-> <<>>, before |-> <<>>,
     status |-> 0, body |-> NoJson, calls |-> <<>>, returned |-> NoCall,
     write |-> "none"]

\* before: the store when the request arrived (history, for the claims)
Request(route, user_id, message, before, result, write) ==
    [route |-> route, user_id |-> user_id, message |-> message, before |-> before,
     status |-> result.response.status, body |-> result.response.body,
     calls |-> result.calls, returned |-> result.returned, write |-> write]

\* The module body stopped on an exception: no process is serving
Crashed == [NoRequest EXCEPT !.route = "crashed"]

Running == last.route # "crashed"

\* No call of generate_unique_id on its own
NoIds == [timestamp |-> <<>>, random_part |-> <<>>, unique_id |-> <<>>, readable_id |-> <<>>]

\* No browser page is open
NoPage == [currentUserId |-> ""]

\* No request is being handled by a thread of its own
NoThreads == [run |-> <<>>, detached |-> <<>>, extent |-> 0]

\* An exception that leaves a route handler is answered 500 by Flask
Handled(result, write) ==
    IF SaveRaises(write)
    THEN [result EXCEPT !.response = Response(500, ErrorBody("Internal Server Error"))]
    ELSE result

\* Module start, lines 57-59 and 143-144
Start(f) ==
    /\ user_sessions' = load_conversations(f)
    /\ last' = IF LoadRaises(f) THEN Crashed ELSE NoRequest

Init ==
    /\ file \in InitialFiles
    /\ user_sessions = load_conversations(file)
    /\ OPENAI_API_KEY \in BOOLEAN
    /\ epoch = 0
    /\ last = IF LoadRaises(file) THEN Crashed ELSE NoRequest
    /\ generated = NoIds
    /\ client = NoPage
    /\ threads = NoThreads

StartInterview ==
    \E user_id \in UserIds, timestamp \in Timestamps, random_part \in RandomParts,
       write \in WriteOutcomes :
        LET done == start_interview(user_sessions, user_id, timestamp, random_part)
            result == Handled(done, write)
        IN  /\ Running
            /\ SumLen(result.sessions) <= MaxTotalTurns
            /\ user_sessions' = result.sessions
            /\ file' = save_conversations(file, result.sessions, write)
            /\ last' = Request("start_interview", user_id, <<>>, user_sessions, result, write)
            /\ UNCHANGED <<OPENAI_API_KEY, epoch, generated, client, threads>>

Chat ==
    \E user_id \in UserIds, user_message \in Messages,
       api \in ChatTexts \cup {ApiRaises}, write \in WriteOutcomes :
        LET done == chat(user_sessions, OPENAI_API_KEY, user_id, user_message, api)
            result == Handled(done, write)
        IN  /\ Running
            /\ SumLen(result.sessions) <= MaxTotalTurns
            /\ user_sessions' = result.sessions
            /\ file' = save_conversations(file, result.sessions, write)
            /\ last' = Request("chat", user_id, user_message, user_sessions, result, write)
            /\ UNCHANGED <<OPENAI_API_KEY, epoch, generated, client, threads>>

ScoreInterview ==
    \E user_id \in UserIds, api \in ScoreTexts \cup {ApiRaises} :
        LET result == score_interview_endpoint(user_sessions, OPENAI_API_KEY, user_id, api)
        IN  /\ Running
            /\ user_sessions' = result.sessions
            /\ last' = Request("score_interview", user_id, <<>>, user_sessions, result, "none")
            /\ UNCHANGED <<file, OPENAI_API_KEY, epoch, generated, client, threads>>

GetUniqueId ==
    \E user_id \in UserIds :
        LET result == get_unique_id(user_sessions, user_id)
        IN  /\ Running
            /\ user_sessions' = result.sessions
            /\ last' = Request("get_unique_id", user_id, <<>>, user_sessions, result, "none")
            /\ UNCHANGED <<file, OPENAI_API_KEY, epoch, generated, client, threads>>

ExportMapping ==
    LET result == export_mapping(user_sessions)
    IN  /\ Running
        /\ user_sessions' = result.sessions
        /\ last' = Request("export_mapping", "", <<>>, user_sessions, result, "none")
        /\ UNCHANGED <<file, OPENAI_API_KEY, epoch, generated, client, threads>>

Health ==
    LET result == health(user_sessions, OPENAI_API_KEY)
    IN  /\ Running
        /\ user_sessions' = result.sessions
        /\ last' = Request("health", "", <<>>, user_sessions, result, "none")
        /\ UNCHANGED <<file, OPENAI_API_KEY, epoch, generated, client, threads>>

\* The process stops and a new one starts: lines 58-59 and 144 run again
Restart ==
    /\ epoch < MaxRestarts
    /\ epoch' = epoch + 1
    /\ Start(file)
    /\ UNCHANGED <<file, OPENAI_API_KEY, generated, client, threads>>

----------------------------------------------------------------------------
(* A first process that finds a durable file written by earlier runs, with     *)
(* sessions that lack identifier turns                                         *)

LegacyIds ==
    generate_unique_id(<<"2","0","2","4","1","2","3","1","2","3","5","9","5","9">>,
                       <<"9","9","9","9","9","9","0","0">>)

\* only a UNIQUE_ID turn
LegacyOnlyUnique ==
    Item("old_u", <<Turn("system", SYSTEM_PROMPT), UniqueIdTurn(LegacyIds.unique_id)>>, "legacy")

\* only a READABLE_ID turn
LegacyOnlyReadable ==
    Item("old_r", <<Turn("system", SYSTEM_PROMPT), ReadableIdTurn(LegacyIds.readable_id)>>, "legacy")

\* both identifier turns, and nothing else
LegacyBoth ==
    Item("old_b", <<UniqueIdTurn(LegacyIds.unique_id), ReadableIdTurn(LegacyIds.readable_id)>>, "legacy")

LegacyFiles ==
    {[state |-> "ok", doc |-> <<LegacyOnlyUnique>>],
     [state |-> "ok", doc |-> <<LegacyOnlyReadable>>],
     [state |-> "ok", doc |-> <<LegacyOnlyUnique, LegacyOnlyReadable, LegacyBoth>>]}

InitLegacy ==
    /\ file \in LegacyFiles
    /\ user_sessions = load_conversations(file)
    /\ OPENAI_API_KEY \in BOOLEAN
    /\ epoch = 0
    /\ last = IF LoadRaises(file) THEN Crashed ELSE NoRequest
    /\ generated = NoIds
    /\ client = NoPage
    /\ threads = NoThreads

Next ==
    \/ StartInterview
    \/ Chat
    \/ ScoreInterview
    \/ GetUniqueId
    \/ ExportMapping
    \/ Health
    \/ Restart

Spec == Init /\ [][Next]_vars

SpecLegacy == InitLegacy /\ [][Next]_vars

----------------------------------------------------------------------------
(* generate_unique_id on its own, over more clock and uuid values *)

\* datetime.now().strftime("%Y%m%d%H%M%S"): 8 characters of date, 6 of time
IdDates ==
    {<<"2","0","2","5","0","1","0","1">>,
     <<"2","0","2","5","1","2","3","1">>,
     <<"1","9","9","9","0","7","0","4">>}

IdTimes ==
    {<<"0","0","0","0","0","0">>,
     <<"1","2","0","0","0","0">>,
     <<"2","3","5","9","5","9">>,
     <<"0","9","3","0","1","5">>}

strftime(date, time) == date \o time

\* str(uuid.uuid4()): 36 characters, 8-4-4-4-12
UuidQuads ==
    {<<"a","b","c","d">>, <<"0","1","2","3">>, <<"f","f","f","f">>}

Uuid4Strings ==
    {a \o b \o <<"-","1","2","3","4","-","4","a","b","c","-","8","d","e","f","-",
                 "0","1","2","3","4","5","6","7","8","9","a","b">> :
        a \in UuidQuads, b \in UuidQuads}

InitIds ==
    /\ user_sessions = <<>>
    /\ file = AbsentFile
    /\ OPENAI_API_KEY = TRUE
    /\ epoch = 0
    /\ last = NoRequest
    /\ generated = NoIds
    /\ client = NoPage
    /\ threads = NoThreads

GenerateId ==
    \E date \in IdDates, time \in IdTimes, uuid4 \in Uuid4Strings :
        LET timestamp   == strftime(date, time)
            random_part == SubSeq(uuid4, 1, 8)
            ids         == generate_unique_id(timestamp, random_part)
        IN  /\ generated' = [timestamp   |-> timestamp,
                             random_part |-> random_part,
                             unique_id   |-> ids.unique_id,
                             readable_id |-> ids.readable_id]
            /\ UNCHANGED <<user_sessions, file, OPENAI_API_KEY, epoch, last, client, threads>>

NextIds == GenerateId

SpecIds == InitIds /\ [][NextIds]_vars

----------------------------------------------------------------------------
(* Two respondents whose interviews are started at the same time of day, and *)
(* the export of the mapping                                                  *)

\* cap on the total number of turns held by the store of this specification
MaxExportTurns == 9

ExportUserIds == {"u1", "u2"}

InitExport ==
    /\ user_sessions = <<>>
    /\ file = AbsentFile
    /\ OPENAI_API_KEY = TRUE
    /\ epoch = 0
    /\ last = NoRequest
    /\ generated = NoIds
    /\ client = NoPage
    /\ threads = NoThreads

ExportStartInterview ==
    \E user_id \in ExportUserIds, timestamp \in Timestamps, random_part \in RandomParts :
        LET result == Handled(start_interview(user_sessions, user_id, timestamp, random_part), "ok")
        IN  /\ SumLen(result.sessions) <= MaxExportTurns
            /\ user_sessions' = result.sessions
            /\ file' = save_conversations(file, result.sessions, "ok")
            /\ last' = Request("start_interview", user_id, <<>>, user_sessions, result, "ok")
            /\ UNCHANGED <<OPENAI_API_KEY, epoch, generated, client, threads>>

ExportChat ==
    \E user_id \in ExportUserIds, user_message \in Messages, api \in {TextReply, ApiRaises} :
        LET result == Handled(chat(user_sessions, OPENAI_API_KEY, user_id, user_message, api), "ok")
        IN  /\ SumLen(result.sessions) <= MaxExportTurns
            /\ user_sessions' = result.sessions
            /\ file' = save_conversations(file, result.sessions, "ok")
            /\ last' = Request("chat", user_id, user_message, user_sessions, result, "ok")
            /\ UNCHANGED <<OPENAI_API_KEY, epoch, generated, client, threads>>

NextExport ==
    \/ ExportStartInterview
    \/ ExportChat
    \/ ExportMapping

SpecExport == InitExport /\ [][NextExport]_vars

----------------------------------------------------------------------------
(* The page script (lines 586-907): the script variables, the armed timers,  *)
(* the fetch requests that have been sent and the responses on their way      *)
(* back.  A click handler runs up to its await; the rest of the function runs *)
(* when the response is delivered.                                            *)

MAX_MESSAGES == 20

\* the value of a member that a JSON value does not have
Undefined == -1

\* 'web_user_' + Date.now(): a new value at page load and at every clearChat
WebUser(n) == "web_user_" \o ToString(n)

\* A timer is named by the number of the interview whose start armed it
\* (interviewTimeout = 0: null).  History kept for the claims: interview
\* numbers the successful starts, loads the values given to currentUserId, sent
\* counts the /chat requests sent since the last successful start or clear,
\* reason and endedBy describe the last endInterview that took effect,
\* recorded the last /chat response that added a slot to answeredQuestions
InitialPage ==
    [currentUserId      |-> WebUser(1),
     isInterviewStarted |-> FALSE,
     answeredQuestions  |-> {},
     lastQuestionAsked  |-> {},
     isInterviewComplete |-> FALSE,
     totalMessageCount  |-> 0,
     interviewTimeout   |-> 0,
     timers    |-> {},
     requests  |-> <<>>,
     responses |-> <<>>,
     loads     |-> 1,
     interview |-> 0,
     sent      |-> 0,
     reason    |-> "none",
     endedBy   |-> 0,
     recorded  |-> [asked |-> {}, is_clarification |-> FALSE, added |-> {}]]

FetchRequest(route, user_id, asked) == [route |-> route, user_id |-> user_id, asked |-> asked]

\* ok = FALSE: fetch() or response.json() rejected, the catch block runs
FetchResponse(request, ok, data) ==
    [route |-> request.route, user_id |-> request.user_id, asked |-> request.asked,
     ok |-> ok, data |-> data]

RemoveAt(seq, i) == SubSeq(seq, 1, i - 1) \o SubSeq(seq, i + 1, Len(seq))

\* data.question_asked in JavaScript: {} for null, {Undefined} when the value
\* is not an object or has no such member
QuestionAsked(data) ==
    IF data.jtype = "object" /\ "question_asked" \in data.fields
    THEN data.question_asked
    ELSE {Undefined}

\* data.is_clarification as a condition: a missing member is falsy
IsClarification(data) ==
    data.jtype = "object" /\ "is_clarification" \in data.fields /\ data.is_clarification

\* clearTimeout(interviewTimeout); interviewTimeout = null (lines 800-803, 842-845)
ClearTimer(c) ==
    IF c.interviewTimeout # 0
    THEN [c EXCEPT !.timers = c.timers \ {c.interviewTimeout},
                   !.interviewTimeout = 0]
    ELSE c

\* endInterview(reason), with showCompletionMessage up to its fetch; by is the
\* interview number of the timer that called it, 0 for another caller
endInterview(c, reason, by) ==
    IF c.isInterviewComplete THEN c
    ELSE LET c1 == [c EXCEPT !.isInterviewComplete = TRUE,
                             !.reason = reason,
                             !.endedBy = by]
             c2 == ClearTimer(c1)
         IN  [c2 EXCEPT !.requests = Append(c2.requests,
                                            FetchRequest("get_unique_id", c2.currentUserId, {}))]

\* startInterview up to the await (lines 680-692)
startInterview(c) ==
    [c EXCEPT !.requests = Append(c.requests,
                                  FetchRequest("start_interview", c.currentUserId, {}))]

\* startInterview after the await (lines 694-719)
startInterviewResponse(c, response) ==
    IF ~response.ok \/ response.data.jtype \in {"none", "null"} THEN c
    ELSE [c EXCEPT !.isInterviewStarted = TRUE,
                   !.answeredQuestions = {},
                   !.lastQuestionAsked = QuestionAsked(response.data),
                   !.isInterviewComplete = FALSE,
                   !.totalMessageCount = 0,
                   !.interviewTimeout = c.interview + 1,
                   !.timers = c.timers \cup {c.interview + 1},
                   !.interview = c.interview + 1,
                   !.sent = 0]

\* Mutant: the limit is tested before the counter is incremented
sendMessage_testFirst(c) ==
    LET c1 == [c EXCEPT !.totalMessageCount = c.totalMessageCount + 1]
    IN  IF c.totalMessageCount > MAX_MESSAGES
        THEN endInterview(c1, "message_limit", 0)
        ELSE [c1 EXCEPT !.sent = c1.sent + 1,
                        !.requests = Append(c1.requests,
                                            FetchRequest("chat", c1.currentUserId,
                                                         c1.lastQuestionAsked))]

\* sendMessage up to the await, for a message that is not empty (lines 726-752)
sendMessage(c) ==
    LET c1 == [c EXCEPT !.totalMessageCount = c.totalMessageCount + 1]
    IN  IF c1.totalMessageCount > MAX_MESSAGES
        THEN endInterview(c1, "message_limit", 0)
        ELSE [c1 EXCEPT !.sent = c1.sent + 1,
                        !.requests = Append(c1.requests,
                                            FetchRequest("chat", c1.currentUserId,
                                                         c1.lastQuestionAsked))]

\* sendMessage after the await (lines 754-782)
sendMessageResponse(c, response) ==
    IF ~response.ok \/ response.data.jtype \in {"none", "null"} THEN c
    ELSE LET data == response.data
             answered == IF c.lastQuestionAsked # {} /\ ~IsClarification(data)
                         THEN c.answeredQuestions \cup c.lastQuestionAsked
                         ELSE c.answeredQuestions
             c1 == [c EXCEPT !.answeredQuestions = answered,
                             !.lastQuestionAsked = IF QuestionAsked(data) # {}
                                                   THEN QuestionAsked(data)
                                                   ELSE c.lastQuestionAsked,
                             !.recorded = IF answered = c.answeredQuestions
                                          THEN c.recorded
                                          ELSE [asked |-> response.asked,
                                                is_clarification |-> IsClarification(data),
                                                added |-> answered \ c.answeredQuestions]]
         IN  IF Cardinality(answered) >= 4
             THEN endInterview(c1, "complete", 0)
             ELSE c1

\* clearChat (lines 829-859)
clearChat(c) ==
    LET c1 == ClearTimer(c)
    IN  [c1 EXCEPT !.currentUserId = WebUser(c.loads + 1),
                   !.loads = c.loads + 1,
                   !.isInterviewStarted = FALSE,
                   !.isInterviewComplete = FALSE,
                   !.answeredQuestions = {},
                   !.lastQuestionAsked = {},
                   !.totalMessageCount = 0,
                   !.sent = 0]

\* showCompletionMessage after the await (lines 871-891): a message is added
\* to the page, no script variable changes
showCompletionResponse(c, response) == c

\* caps on the clicks of Start Interview and Clear Chat, on the send
\* attempts of a page whose replies vary, and on the fetches awaited at once
MaxStartClicks == 2
MaxClears == 1
MaxPageAttempts == 4
MaxInFlight == 2

\* JSON values the /chat route can answer: the parsed completion text,
\* whatever JSON it is, or the fallback reply
PageReplies ==
    {Reply(<<"Hi">>, {n}, FALSE) : n \in 1..3}
    \cup {Reply(<<"Hi">>, {}, TRUE), Reply(TextHello, {}, FALSE), Json("number", {})}

\* ... and the reply of an interviewer that only ever asks to clarify
LimitReplies == {Reply(<<"Hi">>, {}, TRUE)}

UniqueIdReplies ==
    {[Json("object", {"unique_id"}) EXCEPT !.unique_id = <<"1">>],
     ErrorBody("Unique ID not found")}

InFlight == Len(client.requests) + Len(client.responses)

InitPage ==
    /\ user_sessions = <<>>
    /\ file = AbsentFile
    /\ OPENAI_API_KEY = TRUE
    /\ epoch = 0
    /\ last = NoRequest
    /\ generated = NoIds
    /\ client = InitialPage
    /\ threads = NoThreads

ServerUnchanged == UNCHANGED <<user_sessions, file, OPENAI_API_KEY, epoch, last, generated, threads>>

ClickStart ==
    /\ ~client.isInterviewStarted
    /\ client.interview + Len(SelectSeq(client.requests, LAMBDA r : r.route = "start_interview"))
           < MaxStartClicks
    /\ InFlight < MaxInFlight
    /\ client' = startInterview(client)
    /\ ServerUnchanged

ClickSend(maxAttempts) ==
    /\ client.isInterviewStarted
    /\ ~client.isInterviewComplete
    /\ client.totalMessageCount < maxAttempts
    /\ InFlight < MaxInFlight
    /\ client' = sendMessage(client)
    /\ ServerUnchanged

ClickClear ==
    /\ client.loads <= MaxClears
    /\ client' = clearChat(client)
    /\ ServerUnchanged

\* the callback of setTimeout (lines 705-707)
TimerFires ==
    \E t \in client.timers :
        /\ client' = endInterview([client EXCEPT !.timers = client.timers \ {t}],
                                  "timeout", t)
        /\ ServerUnchanged

\* The response of a pending fetch comes back, in any order
StartResponse ==
    \E i \in DOMAIN client.requests, ok \in BOOLEAN :
        /\ client.requests[i].route = "start_interview"
        /\ client' = startInterviewResponse(
                         [client EXCEPT !.requests = RemoveAt(client.requests, i)],
                         FetchResponse(client.requests[i], ok, welcome_data))
        /\ ServerUnchanged

ChatResponse(replies) ==
    \E i \in DOMAIN client.requests, ok \in BOOLEAN, data \in replies :
        /\ client.requests[i].route = "chat"
        /\ client' = sendMessageResponse(
                         [client EXCEPT !.requests = RemoveAt(client.requests, i)],
                         FetchResponse(client.requests[i], ok, data))
        /\ ServerUnchanged

CompletionResponse ==
    \E i \in DOMAIN client.requests, ok \in BOOLEAN, data \in UniqueIdReplies :
        /\ client.requests[i].route = "get_unique_id"
        /\ client' = showCompletionResponse(
                         [client EXCEPT !.requests = RemoveAt(client.requests, i)],
                         FetchResponse(client.requests[i], ok, data))
        /\ ServerUnchanged

NextPage ==
    \/ ClickStart
    \/ ClickSend(MaxPageAttempts)
    \/ ClickClear
    \/ TimerFires
    \/ StartResponse
    \/ ChatResponse(PageReplies)
    \/ CompletionResponse

SpecPage == InitPage /\ [][NextPage]_vars

NextLimit ==
    \/ ClickStart
    \/ ClickSend(MAX_MESSAGES + 1)
    \/ ClickClear
    \/ TimerFires
    \/ StartResponse
    \/ ChatResponse(LimitReplies)
    \/ CompletionResponse

SpecLimit == InitPage /\ [][NextLimit]_vars

----------------------------------------------------------------------------
(* The page and the server together: a fetch request is handled by its route *)
(* at some moment after it was sent, and its response is delivered to the    *)
(* page at some later moment, in any order.                                   *)

\* cap on the turns held by the store, and on the send attempts of the page
MaxSessionTurns == 8
MaxSessionAttempts == 1

SessionTimestamp == <<"2","0","2","5","0","1","0","1","1","2","0","0","0","0">>

\* Request i of the page has been handled with this result: its response is
\* on its way back
Answered(i, result) ==
    [client EXCEPT !.requests = RemoveAt(client.requests, i),
                   !.responses = Append(client.responses,
                                        FetchResponse(client.requests[i], TRUE,
                                                      result.response.body))]

ServeStartInterview ==
    \E i \in DOMAIN client.requests, random_part \in RandomParts :
        LET user_id == client.requests[i].user_id
            result == Handled(start_interview(user_sessions, user_id, SessionTimestamp,
                                              random_part), "ok")
        IN  /\ client.requests[i].route = "start_interview"
            /\ SumLen(result.sessions) <= MaxSessionTurns
            /\ user_sessions' = result.sessions
            /\ file' = save_conversations(file, result.sessions, "ok")
            /\ last' = Request("start_interview", user_id, <<>>, user_sessions, result, "ok")
            /\ client' = Answered(i, result)
            /\ UNCHANGED <<OPENAI_API_KEY, epoch, generated, threads>>

ServeChat ==
    \E i \in DOMAIN client.requests, user_message \in Messages :
        LET user_id == client.requests[i].user_id
            result == Handled(chat(user_sessions, OPENAI_API_KEY, user_id, user_message,
                                   TextReply), "ok")
        IN  /\ client.requests[i].route = "chat"
            /\ SumLen(result.sessions) <= MaxSessionTurns
            /\ user_sessions' = result.sessions
            /\ file' = save_conversations(file, result.sessions, "ok")
            /\ last' = Request("chat", user_id, user_message, user_sessions, result, "ok")
            /\ client' = Answered(i, result)
            /\ UNCHANGED <<OPENAI_API_KEY, epoch, generated, threads>>

ServeGetUniqueId ==
    \E i \in DOMAIN client.requests :
        LET user_id == client.requests[i].user_id
            result == get_unique_id(user_sessions, user_id)
        IN  /\ client.requests[i].route = "get_unique_id"
            /\ user_sessions' = result.sessions
            /\ last' = Request("get_unique_id", user_id, <<>>, user_sessions, result, "none")
            /\ client' = Answered(i, result)
            /\ UNCHANGED <<file, OPENAI_API_KEY, epoch, generated, threads>>

\* The continuation of the function that awaits response i
Deliver ==
    \E i \in DOMAIN client.responses :
        LET response == client.responses[i]
            c == [client EXCEPT !.responses = RemoveAt(client.responses, i)]
        IN  /\ client' = CASE response.route = "start_interview" ->
                                  startInterviewResponse(c, response)
                            [] response.route = "chat" ->
                                  sendMessageResponse(c, response)
                            [] OTHER -> showCompletionResponse(c, response)
            /\ ServerUnchanged

NextSession ==
    \/ ClickStart
    \/ ClickSend(MaxSessionAttempts)
    \/ ClickClear
    \/ TimerFires
    \/ ServeStartInterview
    \/ ServeChat
    \/ ServeGetUniqueId
    \/ Deliver

SpecSession == InitPage /\ [][NextSession]_vars

----------------------------------------------------------------------------
(* Requests handled at once: app.run serves every request in a thread of its *)
(* own and the handlers take no lock.  A step is what one thread does without *)
(* another thread running in between: the membership test, an assignment to   *)
(* user_sessions[user_id], a list append, the completion call, and the open,   *)
(* the serialisation and the close of the save.                               *)
(* threads.run holds one record per request.  A list that user_sessions no    *)
(* longer holds, because its key was assigned again, stays in threads.detached *)
(* for the requests that still refer to it; the lists of a key are numbered    *)
(* in the order of their assignment.  threads.extent is the size of the text   *)
(* the file holds since it was last truncated.                                 *)

\* cap on the requests handled at once
MaxThreads == 2

ThreadUserIds == {"u1", "u2"}

ThreadRoutes == {"start_interview", "chat"}

\* request.json.get("message") of the request handled by thread t
ThreadMessage(t) == <<"hi", ToString(t)>>

\* conversation = 0: the local variable is not bound yet
Thread(route, user_id, message) ==
    [route |-> route, user_id |-> user_id, message |-> message, pc |-> "check",
     conversation |-> 0, response_message |-> <<>>, dumped |-> <<>>]

\* The number of the list that user_sessions holds for key k
CurrentList(th, k) ==
    Cardinality({i \in DOMAIN th.detached : th.detached[i].key = k}) + 1

\* user_sessions[k] = turns
Assign(d, th, k, turns, origin) ==
    [sessions |-> Put(d, k, turns, origin),
     threads  |-> IF Has(d, k)
                  THEN [th EXCEPT !.detached =
                            Append(th.detached,
                                   [key |-> k, list |-> CurrentList(th, k), turns |-> Get(d, k)])]
                  ELSE th]

Detached(th, k, n) == CHOOSE i \in DOMAIN th.detached :
                          th.detached[i].key = k /\ th.detached[i].list = n

\* The turns of list n of key k
ListOf(d, th, k, n) ==
    IF n = CurrentList(th, k) THEN Get(d, k) ELSE th.detached[Detached(th, k, n)].turns

\* Mutant: the append writes back the list without its last turn
ListAppend_overLast(d, th, k, n, turn) ==
    LET turns == ListOf(d, th, k, n)
        kept  == IF Len(turns) > 1 THEN SubSeq(turns, 1, Len(turns) - 1) ELSE turns
    IN  IF n = CurrentList(th, k)
        THEN [sessions |-> Put(d, k, Append(kept, turn), Entry(d, k).origin), threads |-> th]
        ELSE [sessions |-> d,
              threads  |-> [th EXCEPT !.detached[Detached(th, k, n)].turns = Append(kept, turn)]]

\* list.append(turn) on list n of key k: one step, no turn of the list is lost
ListAppend(d, th, k, n, turn) ==
    IF n = CurrentList(th, k)
    THEN [sessions |-> AppendTurn(d, k, turn), threads |-> th]
    ELSE [sessions |-> d,
          threads  |-> [th EXCEPT !.detached[Detached(th, k, n)].turns = Append(@, turn)]]

\* The size of the text of a document, counted in members and turns
DocSize(doc) == Len(doc) + SumLen(doc)

InitThreads ==
    /\ user_sessions = <<>>
    /\ file = AbsentFile
    /\ OPENAI_API_KEY = TRUE
    /\ epoch = 0
    /\ last = NoRequest
    /\ generated = NoIds
    /\ client = NoPage
    /\ threads = NoThreads

ThreadsUnchanged == UNCHANGED <<OPENAI_API_KEY, epoch, last, generated, client>>

\* Thread t goes on to pc, with the memory m it leaves
Step(t, m, pc) ==
    /\ user_sessions' = m.sessions
    /\ threads' = [m.threads EXCEPT !.run[t].pc = pc]

Memory == [sessions |-> user_sessions, threads |-> threads]

At(t, route, pc) == threads.run[t].route = route /\ threads.run[t].pc = pc

\* A request arrives and gets a thread
Arrive ==
    \E route \in ThreadRoutes, user_id \in ThreadUserIds :
        /\ Len(threads.run) < MaxThreads
        /\ threads' = [threads EXCEPT !.run =
                           Append(@, Thread(route, user_id, ThreadMessage(Len(threads.run) + 1)))]
        /\ UNCHANGED <<user_sessions, file>>
        /\ ThreadsUnchanged

\* if user_id not in user_sessions (lines 934, 963)
Check ==
    \E t \in DOMAIN threads.run :
        /\ threads.run[t].pc = "check"
        /\ Step(t, Memory,
                IF ~Has(user_sessions, threads.run[t].user_id) THEN "create"
                ELSE IF threads.run[t].route = "chat" THEN "resolve" ELSE "welcome")
        /\ UNCHANGED file
        /\ ThreadsUnchanged

\* chat, line 964
ChatCreate ==
    \E t \in DOMAIN threads.run :
        /\ At(t, "chat", "create")
        /\ Step(t, Assign(user_sessions, threads, threads.run[t].user_id,
                          <<Turn("system", SYSTEM_PROMPT)>>, "chat"), "resolve")
        /\ UNCHANGED file
        /\ ThreadsUnchanged

\* chat, line 966: conversation = user_sessions[user_id]
ChatResolve ==
    \E t \in DOMAIN threads.run :
        /\ At(t, "chat", "resolve")
        /\ user_sessions' = user_sessions
        /\ threads' = [threads EXCEPT
                           !.run[t].conversation = CurrentList(threads, threads.run[t].user_id),
                           !.run[t].pc = "append_user"]
        /\ UNCHANGED file
        /\ ThreadsUnchanged

\* chat, line 967
ChatAppendUser ==
    \E t \in DOMAIN threads.run :
        LET th == threads.run[t]
        IN  /\ At(t, "chat", "append_user")
            /\ Step(t, ListAppend(user_sessions, threads, th.user_id, th.conversation,
                                  Turn("user", th.message)), "call")
            /\ UNCHANGED file
            /\ ThreadsUnchanged

\* chat, line 972: the completion call on the list the thread refers to
ChatCall ==
    \E t \in DOMAIN threads.run :
        LET th == threads.run[t]
            r  == chat_with_gpt(OPENAI_API_KEY,
                                ListOf(user_sessions, threads, th.user_id, th.conversation),
                                TextReply)
        IN  /\ At(t, "chat", "call")
            /\ user_sessions' = user_sessions
            /\ threads' = [threads EXCEPT !.run[t].response_message = r.text,
                                           !.run[t].pc = "append_assistant"]
            /\ UNCHANGED file
            /\ ThreadsUnchanged

\* chat, line 975
ChatAppendAssistant ==
    \E t \in DOMAIN threads.run :
        LET th == threads.run[t]
        IN  /\ At(t, "chat", "append_assistant")
            /\ Step(t, ListAppend(user_sessions, threads, th.user_id, th.conversation,
                                  Turn("assistant", th.response_message)), "open")
            /\ UNCHANGED file
            /\ ThreadsUnchanged

\* start_interview, line 935
StartCreate ==
    \E t \in DOMAIN threads.run :
        /\ At(t, "start_interview", "create")
        /\ Step(t, Assign(user_sessions, threads, threads.run[t].user_id,
                          <<Turn("system", SYSTEM_PROMPT)>>, "start"), "unique")
        /\ UNCHANGED file
        /\ ThreadsUnchanged

\* The list user_sessions holds for the key of thread t gets turn
AppendToStore(t, turn, pc) ==
    LET k == threads.run[t].user_id
    IN  Step(t, ListAppend(user_sessions, threads, k, CurrentList(threads, k), turn), pc)

\* start_interview, lines 937-938
StartUniqueId ==
    \E t \in DOMAIN threads.run, random_part \in RandomParts :
        /\ At(t, "start_interview", "unique")
        /\ AppendToStore(t, UniqueIdTurn(generate_unique_id(SessionTimestamp,
                                                            random_part).unique_id),
                         "readable")
        /\ UNCHANGED file
        /\ ThreadsUnchanged

\* start_interview, line 939
StartReadableId ==
    \E t \in DOMAIN threads.run, random_part \in RandomParts :
        /\ At(t, "start_interview", "readable")
        /\ AppendToStore(t, ReadableIdTurn(generate_unique_id(SessionTimestamp,
                                                              random_part).readable_id),
                         "welcome")
        /\ UNCHANGED file
        /\ ThreadsUnchanged

\* start_interview, line 948
StartWelcome ==
    \E t \in DOMAIN threads.run :
        /\ At(t, "start_interview", "welcome")
        /\ AppendToStore(t, Turn("assistant", WELCOME_TEXT), "open")
        /\ UNCHANGED file
        /\ ThreadsUnchanged

\* save_conversations, line 138: open(..., 'w') empties the file
SaveOpen ==
    \E t \in DOMAIN threads.run :
        /\ threads.run[t].pc = "open"
        /\ file' = CorruptFile
        /\ user_sessions' = user_sessions
        /\ threads' = [threads EXCEPT !.extent = 0, !.run[t].pc = "dump"]
        /\ ThreadsUnchanged

\* save_conversations, line 139: json.dump serialises the store as it is
\* now into the buffer of the file object
SaveDump ==
    \E t \in DOMAIN threads.run :
        /\ threads.run[t].pc = "dump"
        /\ user_sessions' = user_sessions
        /\ threads' = [threads EXCEPT !.run[t].dumped = json_dump(user_sessions),
                                       !.run[t].pc = "close"]
        /\ UNCHANGED file
        /\ ThreadsUnchanged

\* save_conversations, line 138 (end of the with block): the buffer is written
\* from the start of the file.  Text that another save wrote beyond its end
\* stays behind it, and the file no longer parses.
SaveClose ==
    \E t \in DOMAIN threads.run :
        LET doc == threads.run[t].dumped
        IN  /\ threads.run[t].pc = "close"
            /\ file' = IF DocSize(doc) >= threads.extent
                        THEN [state |-> "ok", doc |-> doc]
                        ELSE CorruptFile
            /\ user_sessions' = user_sessions
            /\ threads' = [threads EXCEPT
                               !.extent = IF DocSize(doc) >= @ THEN DocSize(doc) ELSE @,
                               !.run[t].pc = "done"]
            /\ ThreadsUnchanged

NextThreads ==
    \/ Arrive
    \/ Check
    \/ ChatCreate
    \/ ChatResolve
    \/ ChatAppendUser
    \/ ChatCall
    \/ ChatAppendAssistant
    \/ StartCreate
    \/ StartUniqueId
    \/ StartReadableId
    \/ StartWelcome
    \/ SaveOpen
    \/ SaveDump
    \/ SaveClose

SpecThreads == InitThreads /\ [][NextThreads]_vars

----------------------------------------------------------------------------
(* Helpers of the claims *)

IsPrefix(s, t) == Len(s) <= Len(t) /\ SubSeq(t, 1, Len(s)) = s

SystemTurns(conversation) == SelectSeq(conversation, LAMBDA m : m.role = "system")

IdentifierTurns(conversation, prefix) ==
    SelectSeq(conversation, LAMBDA m : m.role = "system" /\ StartsWith(m.content, prefix))

CreatedByRequest(item) == item.origin \in {"start", "chat"}

Mutating == {"start_interview", "chat"}

----------------------------------------------------------------------------
(* Claims *)

\* C1: within one process lifetime every step keeps every session key of the
\* store, and the transcript of each key before the step is a prefix of its
\* transcript after the step (no turn edited, removed or reordered, no session
\* deleted).
C1_TranscriptsAppendOnly ==
    [][epoch' = epoch =>
          \A k \in Keys(user_sessions) :
              /\ Has(user_sessions', k)
              /\ IsPrefix(Get(user_sessions, k), Get(user_sessions', k))]_vars

\* C1 witness: a /chat request was handled on a session that existed before it
\* and that had already received a /chat request.
C1_Witness ==
    /\ last.route = "chat"
    /\ Has(last.before, last.user_id)
    /\ Len(Get(last.before, last.user_id)) >= 3
    /\ Len(Get(user_sessions, last.user_id)) > Len(Get(last.before, last.user_id))

\* C2: every session created by /start_interview or /chat has the system turn
\* carrying SYSTEM_PROMPT as its first turn.
C2_FirstTurnIsSystemPrompt ==
    \A i \in DOMAIN user_sessions :
        CreatedByRequest(user_sessions[i]) =>
            /\ Len(user_sessions[i].turns) >= 1
            /\ user_sessions[i].turns[1] = Turn("system", SYSTEM_PROMPT)

\* C2 witness: a session created by /chat that has since been started by
\* /start_interview.
C2_Witness ==
    /\ last.route = "start_interview"
    /\ Has(last.before, last.user_id)
    /\ Entry(user_sessions, last.user_id).origin = "chat"

\* C3 (as claimed): every session created by a request carries exactly one
\* UNIQUE_ID system turn and exactly one READABLE_ID system turn, right after
\* the instructions turn.
C3_EverySessionHasIdentifiers ==
    \A i \in DOMAIN user_sessions :
        CreatedByRequest(user_sessions[i]) =>
            LET conversation == user_sessions[i].turns
            IN  /\ Len(IdentifierTurns(conversation, "UNIQUE_ID:")) = 1
                /\ Len(IdentifierTurns(conversation, "READABLE_ID:")) = 1
                /\ Len(conversation) >= 3
                /\ StartsWith(conversation[2].content, "UNIQUE_ID:")
                /\ StartsWith(conversation[3].content, "READABLE_ID:")

\* What /get_unique_id answers for key k in store d, and the UNIQUE_ID value
\* /export_mapping reads from the session of k
ReadableIdAnswer(d, k) == get_unique_id(d, k).response

UniqueIdValue(d, k) ==
    IF Has(d, k) THEN LastIdentifier(Get(d, k), "UNIQUE_ID:") ELSE <<>>

\* Once /get_unique_id answers 200 for k, this step changes neither that
\* answer nor the UNIQUE_ID value of the session
IdentifiersKept(k) ==
    ReadableIdAnswer(user_sessions, k).status = 200 =>
        /\ ReadableIdAnswer(user_sessions', k) = ReadableIdAnswer(user_sessions, k)
        /\ UniqueIdValue(user_sessions', k) = UniqueIdValue(user_sessions, k)

\* The durable file holds the whole store as it is in memory, and k is a string
\* key that no other key of the store serialises to
DurablyHeld(k) ==
    /\ file.state = "ok"
    /\ file.doc = json_dump(user_sessions)
    /\ JsonKey(k) = k
    /\ \A k2 \in Keys(user_sessions) \ {k} : JsonKey(k2) # k

Before == Get(last.before, last.user_id)

After == Get(user_sessions, last.user_id)

\* The completion API was called by the last request and returned a text
ApiReturnedText == last.returned # NoCall /\ last.returned # ApiRaises

\* A structured reply: an object with the members response, question_asked (a
\* number in 0..3 or null) and is_clarification
IsStructuredReply(body) ==
    /\ body.jtype = "object"
    /\ body.fields = ReplyFields
    /\ body.question_asked \in {{}} \cup {{n} : n \in 0..3}
    /\ body.is_clarification \in BOOLEAN

\* C5: when the completion API returns a text that is a JSON object {response,
\* question_asked, is_clarification}, /chat on an existing session answers that
\* object and the transcript grows by exactly a user turn with the message and
\* an assistant turn with the raw text.
C5_ChatReturnsParsedReply ==
    (/\ last.route = "chat"
     /\ Has(last.before, last.user_id)
     /\ ApiReturnedText
     /\ json_loads(last.returned).ok
     /\ json_loads(last.returned).value.jtype = "object"
     /\ json_loads(last.returned).value.fields = ReplyFields)
    => /\ last.status = 200
       /\ last.body = json_loads(last.returned).value
       /\ After = Before \o <<Turn("user", last.message), Turn("assistant", last.returned)>>

\* C5 witness: /chat on a session created by /start_interview got a structured
\* reply from the API.
C5_Witness ==
    /\ last.route = "chat"
    /\ Has(last.before, last.user_id)
    /\ Entry(user_sessions, last.user_id).origin = "start"
    /\ last.returned = TextReply
    /\ last.body = Reply(<<"Hi">>, {1}, FALSE)

\* C6: when the completion API returns a text that does not parse, /chat answers
\* HTTP 200 with {response: raw text, question_asked: null, is_clarification:
\* false} and the raw text is the assistant turn appended to the transcript.
C6_ChatFallbackOnParseFailure ==
    (/\ last.route = "chat"
     /\ ApiReturnedText
     /\ ~json_loads(last.returned).ok)
    => /\ last.status = 200
       /\ last.body = Reply(last.returned, {}, FALSE)
       /\ After[Len(After)] = Turn("assistant", last.returned)
       /\ After[Len(After) - 1] = Turn("user", last.message)

\* C6 witness: the API returned a text that is not JSON.
C6_Witness ==
    /\ last.route = "chat"
    /\ last.returned = TextHello
    /\ last.body.response = TextHello

\* C7 (as claimed): every /chat response body is a structured reply.
C7_ChatBodyIsStructured ==
    last.route = "chat" => IsStructuredReply(last.body)

\* C8: /start_interview creates the session when the key is absent and reuses it
\* when present, appends the welcome payload as one assistant turn, writes the
\* whole store, and answers 200 with the welcome payload (question_asked = 0,
\* is_clarification = false); an existing session grows by that turn only and
\* no other session changes.
C8_StartInterviewSeedsWelcome ==
    last.route = "start_interview" =>
        /\ last.status = 200
        /\ last.body = welcome_data
        /\ last.body.question_asked = {0}
        /\ last.body.is_clarification = FALSE
        /\ Has(user_sessions, last.user_id)
        /\ IF Has(last.before, last.user_id)
           THEN After = Append(Before, Turn("assistant", WELCOME_TEXT))
           ELSE /\ Len(After) = 4
                /\ After[1] = Turn("system", SYSTEM_PROMPT)
                /\ StartsWith(After[2].content, "UNIQUE_ID:")
                /\ StartsWith(After[3].content, "READABLE_ID:")
                /\ After[4] = Turn("assistant", WELCOME_TEXT)
        /\ \A k \in Keys(user_sessions) \ {last.user_id} :
               Has(last.before, k) /\ Get(user_sessions, k) = Get(last.before, k)
        /\ last.write = "ok" => file = [state |-> "ok", doc |-> json_dump(user_sessions)]

\* C8 witness: /start_interview on a session that already existed, written to
\* the durable file.
C8_Witness ==
    /\ last.route = "start_interview"
    /\ Has(last.before, last.user_id)
    /\ last.write = "ok"
    /\ Len(After) = Len(Before) + 1

\* C9: resolving a key twice gives the same store as resolving it once, by
\* either route and in either order, and a request on an existing session
\* leaves its system turns as they were (nothing is seeded a second time).
C9_GetOrCreateIdempotent ==
    /\ \A k \in UserIds, t1, t2 \in Timestamps, r1, r2 \in RandomParts :
          LET viaStart == ResolveStart(user_sessions, k, t1, r1)
              viaChat  == ResolveChat(user_sessions, k)
          IN  /\ ResolveStart(viaStart, k, t2, r2) = viaStart
              /\ ResolveChat(viaStart, k) = viaStart
              /\ ResolveChat(viaChat, k) = viaChat
              /\ ResolveStart(viaChat, k, t2, r2) = viaChat
              /\ Has(user_sessions, k) =>
                     /\ Len(Get(viaStart, k)) = Len(Get(user_sessions, k))
                     /\ Len(Get(viaChat, k)) = Len(Get(user_sessions, k))
    /\ (last.route \in Mutating /\ Has(last.before, last.user_id)) =>
          SystemTurns(After) = SystemTurns(Before)

\* C9 witness: a session was resolved by both routes: created by /start_interview
\* and then used by /chat.
C9_Witness ==
    /\ last.route = "chat"
    /\ Has(last.before, last.user_id)
    /\ Entry(user_sessions, last.user_id).origin = "start"
    /\ Len(SystemTurns(After)) = 3

\* C10 (as claimed): /get_unique_id for a user_id that has no session answers
\* HTTP 404 with an error member.
C10_UnknownKeyIs404 ==
    (last.route = "get_unique_id" /\ ~Has(last.before, last.user_id))
    => (last.status = 404 /\ "error" \in last.body.fields)

\* C10 (amended): /get_unique_id for a user_id that has no session answers HTTP
\* 400 with an error member; 404 is the answer for a session that exists and
\* holds no READABLE_ID system turn.
C10_UnknownKeyIs400 ==
    last.route = "get_unique_id" =>
        /\ ~Has(last.before, last.user_id)
               => (last.status = 400 /\ "error" \in last.body.fields)
        /\ last.status = 404
               <=> /\ Has(last.before, last.user_id)
                   /\ IdentifierTurns(Before, "READABLE_ID:") = <<>>
        /\ last.status = 404 => "error" \in last.body.fields

\* C10 witness: /get_unique_id was asked for a key that has no session.
C10_Witness ==
    /\ last.route = "get_unique_id"
    /\ ~Has(last.before, last.user_id)
    /\ last.status = 400

\* C11: /score_interview for a user_id that has no session answers HTTP 400 with
\* an error member, makes no completion API call and creates no session.
C11_ScoreUnknownKeyIs400 ==
    (last.route = "score_interview" /\ ~Has(last.before, last.user_id))
    => /\ last.status = 400
       /\ "error" \in last.body.fields
       /\ last.calls = <<>>
       /\ last.returned = NoCall
       /\ ~Has(user_sessions, last.user_id)
       /\ user_sessions = last.before

\* C11 witness: /score_interview for an unknown key while the credential is
\* configured and another session exists.
C11_Witness ==
    /\ last.route = "score_interview"
    /\ ~Has(last.before, last.user_id)
    /\ OPENAI_API_KEY
    /\ Len(user_sessions) = 1

\* The store as a durable document shows it: the keys in order, each with its
\* ordered turns
KeysAndTurns(d) == [i \in DOMAIN d |-> <<d[i].key, d[i].turns>>]

\* C12 (as claimed): at the completion of every /start_interview and /chat
\* request whose write succeeds, the durable document equals the whole
\* in-memory store: the same keys, each with the same ordered turns.
C12_DocumentEqualsStore ==
    (last.route \in Mutating /\ last.write = "ok")
    => /\ file.state = "ok"
       /\ KeysAndTurns(file.doc) = KeysAndTurns(user_sessions)

\* C13 (as claimed): saving the store successfully and loading the file again
\* gives a store with the same session keys and, for each key, the same ordered
\* turns.
C13_RoundTrip ==
    LET saved    == save_conversations(file, user_sessions, "ok")
        reloaded == load_conversations(saved)
    IN  /\ Keys(reloaded) = Keys(user_sessions)
        /\ \A k \in Keys(user_sessions) :
               Has(reloaded, k) /\ Get(reloaded, k) = Get(user_sessions, k)

\* The response the handler of the last mutating request gives for the same
\* request on the same store when nothing goes wrong with the write
ResponseWhenWritten ==
    IF last.route = "chat"
    THEN chat(last.before, OPENAI_API_KEY, last.user_id, last.message,
              IF last.returned = NoCall THEN ApiRaises ELSE last.returned).response
    ELSE Response(200, welcome_data)

\* C14: when the durable write fails during /start_interview or /chat, the
\* request answers with the status and body it has when the write succeeds, and
\* the in-memory store (which every later request of the process reads) holds
\* the turns the request appended.
C14_WriteFailureSwallowed ==
    (last.route \in Mutating /\ last.write # "ok")
    => /\ last.status = ResponseWhenWritten.status
       /\ last.body = ResponseWhenWritten.body
       /\ last.status = 200
       /\ Has(user_sessions, last.user_id)
       /\ Has(last.before, last.user_id) => IsPrefix(Before, After)
       /\ IF last.route = "chat"
          THEN /\ After[Len(After) - 1] = Turn("user", last.message)
               /\ After[Len(After)].role = "assistant"
               /\ Len(After) = (IF Has(last.before, last.user_id) THEN Len(Before) ELSE 1) + 2
          ELSE /\ After[Len(After)] = Turn("assistant", WELCOME_TEXT)
               /\ Len(After) = (IF Has(last.before, last.user_id) THEN Len(Before) ELSE 3) + 1

\* C14 witness: a /chat request whose write failed, on a session whose creating
\* request had failed to write too (the file never held the session).
C14_Witness ==
    /\ last.route = "chat"
    /\ last.write = "open_failed"
    /\ file.state = "absent"
    /\ Has(last.before, last.user_id)
    /\ Len(After) = Len(Before) + 2

\* C15: a process that starts with the durable file absent or unreadable does
\* not crash and starts with the empty store, and requests on the empty store
\* are served as usual.
C15_LoadFailureGivesEmptyStore ==
    /\ Running
    /\ (last = NoRequest /\ file.state # "ok") => user_sessions = <<>>
    /\ file.state # "ok" => load_conversations(file) = <<>>
    /\ (last.route \in Mutating /\ last.before = <<>>)
           => (last.status = 200 /\ Keys(user_sessions) = {last.user_id})

\* C15 witness: after a restart that found the file unreadable, a request was
\* served on the empty store (its own write left the file untouched).
C15_Witness ==
    /\ epoch = 1
    /\ file.state = "corrupt"
    /\ last.route = "start_interview"
    /\ last.write = "open_failed"
    /\ last.before = <<>>
    /\ last.status = 200

\* C16: when the completion call fails (the API raises, or no API key is
\* configured), /chat makes at most one call attempt (none without a key) and
\* answers HTTP 200 with a reply whose response is the error text "Error: ...",
\* question_asked null and is_clarification false.
C16_ApiFailureIsTextualError ==
    (last.route = "chat" /\ (last.returned = ApiRaises \/ ~OPENAI_API_KEY))
    => /\ Len(last.calls) <= 1
       /\ ~OPENAI_API_KEY => last.calls = <<>>
       /\ last.status = 200
       /\ IsStructuredReply(last.body)
       /\ StartsWith(last.body.response, "Error: ")
       /\ last.body.question_asked = {}
       /\ last.body.is_clarification = FALSE

\* C16 witness: the completion API raised during a /chat request.
C16_Witness ==
    /\ last.route = "chat"
    /\ last.returned = ApiRaises
    /\ Len(last.calls) = 1
    /\ last.body.response = ErrorApi

LacksAnIdentifier(conversation) ==
    \/ IdentifierTurns(conversation, "UNIQUE_ID:") = <<>>
    \/ IdentifierTurns(conversation, "READABLE_ID:") = <<>>

\* C17: /export_mapping answers 200 and lists no session that lacks either
\* identifier turn (only a UNIQUE_ID turn, only a READABLE_ID turn, or neither).
C17_ExportExcludesIncomplete ==
    last.route = "export_mapping" =>
        /\ last.status = 200
        /\ \A i \in DOMAIN last.before :
               LacksAnIdentifier(last.before[i].turns) =>
                   \A j \in DOMAIN last.body.mapping :
                       last.body.mapping[j].user_id # last.before[i].key

\* C17 witness: the store holds a session with only a UNIQUE_ID turn, one with
\* only a READABLE_ID turn and one with both, and only the last is listed.
C17_Witness ==
    /\ last.route = "export_mapping"
    /\ \E i \in DOMAIN last.before :
           /\ IdentifierTurns(last.before[i].turns, "UNIQUE_ID:") # <<>>
           /\ IdentifierTurns(last.before[i].turns, "READABLE_ID:") = <<>>
    /\ \E i \in DOMAIN last.before :
           /\ IdentifierTurns(last.before[i].turns, "UNIQUE_ID:") = <<>>
           /\ IdentifierTurns(last.before[i].turns, "READABLE_ID:") # <<>>
    /\ Len(last.body.mapping) = 1

ScoredTurns(conversation) == SelectSeq(conversation, LAMBDA m : m.role # "system")

ScoredLabel(role) ==
    CASE role = "assistant" -> "Interviewer"
      [] role = "user"      -> "Candidate"

\* the lines of turns[1..n], one after the other
RECURSIVE ScoredLines(_, _)
ScoredLines(turns, n) ==
    IF n = 0 THEN <<>>
    ELSE ScoredLines(turns, n - 1)
         \o <<ScoredLabel(turns[n].role), ": ">> \o turns[n].content \o <<"\n\n">>

\* C18: the transcript sent for scoring holds, in transcript order, one line
\* per non-system turn and none for a system turn: 'Interviewer' for an
\* assistant turn, 'Candidate' for a user turn, then the content and a blank line.
C18_ScoringTranscript ==
    (last.route = "score_interview" /\ last.calls # <<>>) =>
        LET turns == ScoredTurns(Get(last.before, last.user_id))
        IN  last.calls[1][2].content =
                <<"Please evaluate the following interview transcript for grandiose narcissism:\n\n">>
                \o ScoredLines(turns, Len(turns))

\* C18 witness: a scored transcript with system, user and assistant turns
C18_Witness ==
    /\ last.route = "score_interview"
    /\ last.calls # <<>>
    /\ LET conversation == Get(last.before, last.user_id)
       IN  /\ \E i \in DOMAIN conversation : conversation[i].role = "system"
           /\ \E i \in DOMAIN conversation : conversation[i].role = "user"
           /\ \E i \in DOMAIN conversation : conversation[i].role = "assistant"

\* C19: every pair produced by generate_unique_id has internal id
\* '<14-char timestamp>-<8-char random slice>' and readable id made of the last
\* 6 characters of that timestamp, a separator and the first 6 characters of
\* that slice; the readable id is computed from the internal id alone and is
\* never longer than it.
C19_IdentifierStructure ==
    generated # NoIds =>
        /\ Len(generated.timestamp) = 14
        /\ Len(generated.random_part) = 8
        /\ generated.unique_id = generated.timestamp \o <<"-">> \o generated.random_part
        /\ generated.readable_id =
               SubSeq(generated.timestamp, 9, 14) \o <<"-">> \o SubSeq(generated.random_part, 1, 6)
        /\ generated.readable_id =
               SubSeq(generated.unique_id, 9, 14) \o <<"-">> \o SubSeq(generated.unique_id, 16, 21)
        /\ Len(generated.readable_id) <= Len(generated.unique_id)

\* C19 witness: a generated pair whose timestamp begins and ends differently
C19_Witness ==
    /\ generated # NoIds
    /\ SubSeq(generated.timestamp, 1, 6) # SubSeq(generated.timestamp, 9, 14)
    /\ Len(generated.readable_id) = 13

\* The transcript a /chat request for user_id starts from
ChatBase(d, user_id) ==
    IF Has(d, user_id) THEN Get(d, user_id) ELSE <<Turn("system", SYSTEM_PROMPT)>>

\* The request was accepted: answered 200, with the user turn and one
\* assistant turn appended to the transcript
ChatAccepted(d, user_id, user_message, result) ==
    LET base == ChatBase(d, user_id)
        conversation == Get(result.sessions, user_id)
    IN  /\ result.response.status = 200
        /\ Has(result.sessions, user_id)
        /\ Len(conversation) = Len(base) + 2
        /\ SubSeq(conversation, 1, Len(base)) = base
        /\ conversation[Len(base) + 1] = Turn("user", user_message)
        /\ conversation[Len(base) + 2].role = "assistant"

\* C20: the server enforces no interview limit: in every state of a serving
\* process and for every session key, a /chat request is accepted and appends
\* its turns, whatever the transcript holds already; and every /chat request
\* that was made was accepted so.
C20_ChatNeverRefused ==
    Running =>
        /\ \A user_id \in UserIds \cup Keys(user_sessions), user_message \in Messages,
              api \in ChatTexts \cup {ApiRaises}, write \in WriteOutcomes :
               ChatAccepted(user_sessions, user_id, user_message,
                            Handled(chat(user_sessions, OPENAI_API_KEY, user_id,
                                         user_message, api), write))
        /\ last.route = "chat" =>
               /\ last.status = 200
               /\ Len(After) = Len(ChatBase(last.before, last.user_id)) + 2

\* C20 witness: a /chat request on a transcript that already held a full
\* exchange was accepted and appended two turns
C20_Witness ==
    /\ last.route = "chat"
    /\ Has(last.before, last.user_id)
    /\ Len(SelectSeq(Before, LAMBDA m : m.role = "user")) >= 1
    /\ Len(SelectSeq(Before, LAMBDA m : m.role = "assistant")) >= 1
    /\ last.status = 200
    /\ Len(After) = Len(Before) + 2

\* The text chat_with_gpt hands back for the outcome of the last request's call
CompletionText ==
    CASE last.returned = NoCall    -> ErrorNoKey
      [] last.returned = ApiRaises -> ErrorApi
      [] OTHER                     -> last.returned

\* C27: whatever the outcome of the completion call (JSON, text that does not
\* parse, exception, no API key), a /chat request appends exactly one user turn
\* followed by exactly one assistant turn; no transcript of the store ends in a
\* user turn between requests; the error text of a failed call is kept as the
\* assistant turn.
C27_ChatAppendsUserThenAssistant ==
    /\ last.route = "chat" =>
           /\ After = ChatBase(last.before, last.user_id)
                      \o <<Turn("user", last.message), Turn("assistant", CompletionText)>>
           /\ (last.returned = ApiRaises \/ last.returned = NoCall) =>
                  /\ After[Len(After)].role = "assistant"
                  /\ StartsWith(After[Len(After)].content, "Error: ")
    /\ \A i \in DOMAIN user_sessions :
           LET conversation == user_sessions[i].turns
           IN  conversation # <<>> /\ conversation[Len(conversation)].role # "user"

\* C27 witness: a /chat request made without an API key, after one whose call
\* raised: both error texts are assistant turns of the transcript
C27_Witness ==
    /\ last.route = "chat"
    /\ Has(last.before, last.user_id)
    /\ Before[Len(Before)] = Turn("assistant", ErrorNoKey)
    /\ last.returned = NoCall
    /\ After[Len(After)] = Turn("assistant", ErrorNoKey)
    /\ After[Len(After) - 1].role = "user"

\* C28: identifier turns are added only when /start_interview creates the
\* session: a session created by /chat holds no identifier turn in any later
\* state, also after /start_interview requests on its key, so /get_unique_id
\* answers 404 for it and /export_mapping does not list it.
C28_ChatSessionsNeverGetIdentifiers ==
    \A i \in DOMAIN user_sessions :
        user_sessions[i].origin = "chat" =>
            /\ IdentifierTurns(user_sessions[i].turns, "UNIQUE_ID:") = <<>>
            /\ IdentifierTurns(user_sessions[i].turns, "READABLE_ID:") = <<>>
            /\ get_unique_id(user_sessions, user_sessions[i].key).response.status = 404
            /\ \A j \in DOMAIN export_mapping(user_sessions).response.body.mapping :
                   export_mapping(user_sessions).response.body.mapping[j].user_id
                       # user_sessions[i].key

\* C28 witness: /get_unique_id answered 404 for a session created by /chat on
\* which /start_interview has been requested since
C28_Witness ==
    /\ last.route = "get_unique_id"
    /\ last.status = 404
    /\ Has(user_sessions, last.user_id)
    /\ Entry(user_sessions, last.user_id).origin = "chat"
    /\ \E i \in DOMAIN After : After[i] = Turn("assistant", WELCOME_TEXT)

ReadOnlyRoutes == {"score_interview", "get_unique_id", "export_mapping", "health"}

\* C30: a request to /score_interview, /get_unique_id, /export_mapping or
\* /health leaves the in-memory store and the durable document as they were,
\* for every input and outcome (success, unknown key, missing identifier,
\* failed scoring call).
C30_ReadOnlyEndpointsChangeNothing ==
    [][last'.route \in ReadOnlyRoutes =>
          /\ user_sessions' = user_sessions
          /\ file' = file
          /\ last'.before = user_sessions]_vars

\* C30 witness: a scoring call that raised, on a session held by the store
\* and by the durable document
C30_Witness ==
    /\ last.route = "score_interview"
    /\ last.returned = ApiRaises
    /\ Has(last.before, last.user_id)
    /\ file.state = "ok"
    /\ user_sessions = last.before

\* The sessions of store d that hold both identifier turns
CompleteSessions(d) ==
    {i \in DOMAIN d : /\ IdentifierTurns(d[i].turns, "UNIQUE_ID:") # <<>>
                      /\ IdentifierTurns(d[i].turns, "READABLE_ID:") # <<>>}

\* C29 (as claimed): /export_mapping returns exactly one entry for every
\* session that holds both identifier turns (as many entries as such sessions),
\* with that session's key as user_id, its internal id as unique_id and its
\* number of non-system turns as message_count, also when two sessions were
\* given the same readable id.
C29_OneEntryPerSession ==
    last.route = "export_mapping" =>
        /\ Len(last.body.mapping) = Cardinality(CompleteSessions(last.before))
        /\ \A i \in CompleteSessions(last.before) :
               \E j \in DOMAIN last.body.mapping :
                   /\ last.body.mapping[j].user_id = last.before[i].key
                   /\ last.body.mapping[j].unique_id =
                          LastIdentifier(last.before[i].turns, "UNIQUE_ID:")
                   /\ last.body.mapping[j].message_count =
                          MessageCount(last.before[i].turns)

\* The /chat requests the page has sent and whose responses it awaits
ChatRequests(c) == SelectSeq(c.requests, LAMBDA r : r.route = "chat")

\* C21: within one interview (from a successful start until it ends or the
\* chat is cleared) the page sends at most 20 /chat requests; the 21st send
\* attempt ends the interview with reason 'message_limit' and sends no
\* request; a page whose interview has ended sends no /chat request.
C21_ClientMessageLimit ==
    /\ [](client.sent <= MAX_MESSAGES)
    /\ [][/\ (client.totalMessageCount = MAX_MESSAGES
                 /\ client'.totalMessageCount = MAX_MESSAGES + 1)
             => /\ client'.isInterviewComplete
                /\ client'.reason = "message_limit"
                /\ ChatRequests(client') = ChatRequests(client)
                /\ client'.sent = MAX_MESSAGES
          /\ Len(ChatRequests(client')) > Len(ChatRequests(client))
             => /\ client.isInterviewStarted
                /\ ~client.isInterviewComplete
                /\ client'.sent = client.sent + 1
                /\ client'.totalMessageCount <= MAX_MESSAGES]_vars

\* C21 witness: the 21st attempt has ended an interview in which 20 /chat
\* requests were sent
C21_Witness ==
    /\ client.isInterviewComplete
    /\ client.reason = "message_limit"
    /\ client.totalMessageCount = MAX_MESSAGES + 1
    /\ client.sent = MAX_MESSAGES

\* C22 (as claimed): the page ends an interview with reason 'complete' only
\* when the four slots 0, 1, 2 and 3 are recorded as answered, and a slot is
\* recorded as answered only if it was the last question asked when the user
\* sent the message and the reply to that message was not a clarification,
\* whatever /chat replies.
C22_CompleteMeansFourSlots ==
    /\ (client.isInterviewComplete /\ client.reason = "complete")
           => 0..3 \subseteq client.answeredQuestions
    /\ client.recorded.added # {}
           => /\ client.recorded.added = client.recorded.asked
              /\ ~client.recorded.is_clarification

\* C23 (as claimed): an interview is ended with reason 'timeout' only by the
\* timer armed at its own start; a timer armed by an earlier start never fires
\* into a later interview.
C23_TimeoutByOwnTimer ==
    (client.isInterviewComplete /\ client.reason = "timeout")
        => client.endedBy = client.interview

\* The session the server holds for the page's current user id was created by
\* /start_interview and holds a READABLE_ID turn
StartedByStartInterview(d, user_id) ==
    /\ Has(d, user_id)
    /\ Entry(d, user_id).origin = "start"
    /\ IdentifierTurns(Get(d, user_id), "READABLE_ID:") # <<>>

\* C24 (as claimed): whenever the page is in a started interview, the session
\* the server holds for the page's current user id was created by
\* /start_interview and holds a READABLE_ID turn, so the /get_unique_id request
\* the page issues for its current user id at the end of an interview is
\* answered with a readable id, for any interleaving of clicks, messages and
\* responses.
C24_EndedInterviewGetsReadableId ==
    /\ client.isInterviewStarted
           => StartedByStartInterview(user_sessions, client.currentUserId)
    /\ (last.route = "get_unique_id" /\ last.user_id = client.currentUserId)
           => last.status = 200

\* Every request has been answered
AllDone == threads.run # <<>> /\ \A t \in DOMAIN threads.run : threads.run[t].pc = "done"

\* The /chat request of thread t has appended its user turn
HasAppended(t) ==
    /\ threads.run[t].route = "chat"
    /\ threads.run[t].pc \notin {"check", "create", "resolve", "append_user"}

\* The user turn of thread t is a turn of the transcript the store holds for
\* its key
InStore(t) ==
    \E i \in DOMAIN Get(user_sessions, threads.run[t].user_id) :
        Get(user_sessions, threads.run[t].user_id)[i] = Turn("user", threads.run[t].message)

\* C25: requests for one key race without a lock and the last write wins: a
\* turn that a /chat request appended is missing from the transcript the store
\* holds for its key only when the key was assigned a new list by another
\* request after this one took its list (the appends themselves lose nothing),
\* and a state where every request is answered and such a turn is missing is
\* reachable (the witness).
C25_LastWriteWins ==
    \A t \in DOMAIN threads.run :
        HasAppended(t) =>
            \/ InStore(t)
            \/ /\ threads.run[t].conversation
                     < CurrentList(threads, threads.run[t].user_id)
               /\ \E u \in DOMAIN threads.run \ {t} :
                      /\ threads.run[u].user_id = threads.run[t].user_id
                      /\ threads.run[u].pc \notin {"check", "create"}

\* C25 witness: two requests for one key are answered and the user turn one
\* of them appended is not in the transcript of the key
C25_Witness ==
    /\ AllDone
    /\ \E t \in DOMAIN threads.run : HasAppended(t) /\ ~InStore(t)

\* C26 (as claimed): once every request handled at once has been answered and
\* no write raised, the durable document equals the in-memory store.
C26_DocumentEqualsStoreWhenDone ==
    AllDone => /\ file.state = "ok"
               /\ file.doc = json_dump(user_sessions)

====
